---- MODULE Spec2Model ----
(***************************************************************************)
(* Model of forwardmodel/spec1d/eigenroots.hpp: the three root solvers     *)
(* eigensolveroots, eigensolveroots_lobatto and eigensolveroots_laguerre.  *)
(*                                                                         *)
(* One behaviour is one call of one entry point on caller-supplied output  *)
(* arguments.  The matrix pencil (A, I) is consumed only by the external   *)
(* solver GEP, so it is represented by its dimension and element type; the *)
(* solver is a nondeterministic collaborator that either fails or returns  *)
(* a table lambda of dim rows (real numerator, imaginary numerator,        *)
(* denominator).  Values are integers and every quotient the solver's      *)
(* table leads to is exact.  Sequences are 1-based: the C++ slot k is the  *)
(* TLA+ index k + 1.                                                       *)
(***************************************************************************)
EXTENDS Integers, Sequences, FiniteSets

\* Largest pencil dimension N explored.
MaxN == 3

VARIABLES
    fn,         \* entry point called: "generic", "lobatto", "laguerre" ("none" before the call)
    real,       \* the template argument `real` of the instantiation
    order,      \* poly.order() / the order argument
    dim,        \* N, the dimension of the pencil (A, I)
    pencilType, \* element type of A, I, work, eu, ev, lambda
    pc,         \* "idle", "gep" (pencil built), "loop" (classification), "done"
    eig_real,   \* caller's vector
    eig_imag,   \* caller's vector (generic solver only)
    nreal,      \* caller's int
    nimag,      \* local counter of the generic solver
    i,          \* loop index of the classification loop
    lambda,     \* eigenvalue table returned by GEP
    gepStatus,  \* "none", "ok", "failed"
    gepCalls,   \* number of GEP invocations in this call
    errors,     \* number of ERROR(...) log lines written
    result,     \* "none", "true", "false": the bool returned
    eig_real0,  \* history: eig_real as supplied by the caller
    eig_imag0,  \* history: eig_imag as supplied by the caller
    nreal0,     \* history: nreal as supplied by the caller
    written     \* history: C++ slots written by the classification loop, in order

vars == <<fn, real, order, dim, pencilType, pc, eig_real, eig_imag, nreal, nimag,
          i, lambda, gepStatus, gepCalls, errors, result, eig_real0, eig_imag0,
          nreal0, written>>

-----------------------------------------------------------------------------
(* Inputs *)

\* Instantiations of the template parameter.
RealTypes == {"float", "double", "longdouble"}

\* Contents of the caller's vectors and counter before the call.
PriorReal == {<<>>, <<5, 3>>, <<3, 5, 4, 6>>}
PriorImag == {<<>>, <<9>>}
PriorNreal == {0, 5}

-----------------------------------------------------------------------------
(* The external solver's eigenvalue table *)

\* Rows with imaginary numerator zero: values -1, 1, -2.
RealRows == {<<-2, 0, 2>>, <<1, 0, 1>>, <<2, 0, -1>>}

\* First row of a complex-conjugate pair: 0 + 1i and 1 - 1i.
PairRows == {<<0, 2, 2>>, <<-1, 1, -1>>}

\* Rows breaking the solver's contract: denominator zero.
ZeroRealRows == {<<1, 0, 0>>}
ZeroPairRows == {<<1, 1, 0>>}

Conj(row) == <<row[1], -row[2], row[3]>>

RECURSIVE Tables(_, _, _)
Tables(n, R, P) ==
    IF n = 0 THEN {<<>>}
    ELSE {<<r>> \o t : r \in R, t \in Tables(n - 1, R, P)}
         \cup (IF n >= 2
               THEN {<<p, Conj(p)>> \o t : p \in P, t \in Tables(n - 2, R, P)}
               ELSE {})

-----------------------------------------------------------------------------
(* Arithmetic *)

\* IEEE results of a division by zero.
PosInf == 1000
NegInf == -1000
NaN == 2000

Quot(n, d) == CHOOSE q \in -4..4 : q * d = n

\* lambda(i, c)/lambda(i, 2): exact for a nonzero denominator; a division by
\* zero yields whatever the build produces.
DivOutcomes(n, d) == IF d # 0 THEN {Quot(n, d)} ELSE {PosInf, NegInf, NaN}

-----------------------------------------------------------------------------
(* std::vector and std::sort *)

\* v.resize(n): keeps the first min(size, n) elements, value-initialises the rest.
RECURSIVE Zeros(_)
Zeros(n) == IF n <= 0 THEN <<>> ELSE <<0>> \o Zeros(n - 1)

Resize(s, n) == IF n <= Len(s) THEN SubSeq(s, 1, n) ELSE s \o Zeros(n - Len(s))

\* v[k] = x for the C++ slot k.
Store(s, k, x) == IF k \in 0..(Len(s) - 1) THEN [s EXCEPT ![k + 1] = x] ELSE s

RECURSIVE Insert(_, _)
Insert(x, s) ==
    IF s = <<>> THEN <<x>>
    ELSE IF x <= Head(s) THEN <<x>> \o s
    ELSE <<Head(s)>> \o Insert(x, Tail(s))

RECURSIVE SortSeq(_)
SortSeq(s) == IF s = <<>> THEN <<>> ELSE Insert(Head(s), SortSeq(Tail(s)))

Range(s) == {s[j] : j \in 1..Len(s)}

Count(s, x) == Cardinality({j \in 1..Len(s) : s[j] = x})

IsPermutation(s, t) ==
    /\ Len(s) = Len(t)
    /\ \A x \in Range(s) \cup Range(t) : Count(s, x) = Count(t, x)

\* Faulty variant: sorts the whole vector instead of the real prefix.
StdSortWhole(s, n) == {SortSeq(s)}

\* std::sort(s.begin(), s.begin() + n): the possible results.  operator< is no
\* strict weak ordering on a range holding a NaN, and the result is then any
\* arrangement of the range.
StdSort(s, n) ==
    LET pre == SubSeq(s, 1, n)
        post == SubSeq(s, n + 1, Len(s))
    IN  IF NaN \in Range(pre)
        THEN {p \o post : p \in {q \in [1..n -> Range(pre)] : IsPermutation(q, pre)}}
        ELSE {SortSeq(pre) \o post}

-----------------------------------------------------------------------------
(* Pieces of the entry points *)

\* Faulty variant: the Laguerre pencil hard-coded like the Lobatto one.
PencilTypeAllDouble(f, r) == IF f = "generic" THEN r ELSE "double"

\* Element type of the Spec1DMatrix objects of entry point f instantiated at r.
PencilType(f, r) == IF f = "lobatto" THEN "double" ELSE r

\* Faulty variant: N = order, as in the Laguerre solver.
LobattoDimIsOrder(o) == o

\* size_t N = order - 1
LobattoDim(o) == o - 1

\* Faulty variant: tests the real numerator.
IsRealRowWrongColumn(row) == row[1] = 0

\* lambda(i, 1) == 0.0
IsRealRow(row) == row[2] = 0

\* Faulty variant: off by one.
ComplexSlotOffByOne(N, k) == N - k

\* N - 1 - nimag
ComplexSlot(N, k) == N - 1 - k

-----------------------------------------------------------------------------
Init ==
    /\ fn = "none"
    /\ real \in RealTypes
    /\ order = 0
    /\ dim = 0
    /\ pencilType = "none"
    /\ pc = "idle"
    /\ eig_real \in PriorReal
    /\ eig_imag \in PriorImag
    /\ nreal \in PriorNreal
    /\ nimag = 0
    /\ i = 0
    /\ lambda = <<>>
    /\ gepStatus = "none"
    /\ gepCalls = 0
    /\ errors = 0
    /\ result = "none"
    /\ eig_real0 = eig_real
    /\ eig_imag0 = eig_imag
    /\ nreal0 = nreal
    /\ written = <<>>

history == <<eig_real0, eig_imag0, nreal0>>

\* The pencil of dimension n is built; GEP is about to be called.
BuildPencil(f, o, n) ==
    /\ fn' = f
    /\ order' = o
    /\ dim' = n
    /\ pencilType' = PencilType(f, real)
    /\ pc' = "gep"
    /\ UNCHANGED <<real, eig_real, eig_imag, nreal, nimag, i, lambda, gepStatus,
                   gepCalls, errors, result, history, written>>

\* A closed-form case: push_back of the roots, nreal = n, return true.
ClosedForm(f, o, roots, n) ==
    /\ fn' = f
    /\ order' = o
    /\ eig_real' = eig_real \o roots
    /\ nreal' = n
    /\ result' = "true"
    /\ pc' = "done"
    /\ UNCHANGED <<real, dim, pencilType, eig_imag, nimag, i, lambda, gepStatus,
                   gepCalls, errors, history, written>>

\* eigensolveroots up to the GEP call: N = poly.order(), companion matrix.
eigensolveroots ==
    /\ pc = "idle"
    /\ \E o \in 0..MaxN : BuildPencil("generic", o, o)

\* eigensolveroots_lobatto up to the GEP call, or a whole closed-form case.
eigensolveroots_lobatto ==
    /\ pc = "idle"
    /\ \E o \in 0..(MaxN + 1) :
          CASE o = 0 -> ClosedForm("lobatto", o, <<0>>, 1)
            [] o = 1 -> ClosedForm("lobatto", o, <<-1, 1>>, 2)
            [] o = 2 -> ClosedForm("lobatto", o, <<-1, 0, 1>>, 3)
            [] OTHER -> BuildPencil("lobatto", o, LobattoDim(o))

\* eigensolveroots_laguerre up to the GEP call, or a whole closed-form case.
eigensolveroots_laguerre ==
    /\ pc = "idle"
    /\ \E o \in 0..MaxN :
          CASE o = 0 -> ClosedForm("laguerre", o, <<>>, 0)
            [] o = 1 -> ClosedForm("laguerre", o, <<2>>, 1)
            [] OTHER -> BuildPencil("laguerre", o, o)

\* Faulty variant: nreal = 0 hoisted above the GEP call.
GEPFailNrealReset ==
    /\ pc = "gep"
    /\ gepStatus' = "failed"
    /\ gepCalls' = gepCalls + 1
    /\ errors' = errors + 1
    /\ nreal' = 0
    /\ result' = "false"
    /\ pc' = "done"
    /\ UNCHANGED <<fn, real, order, dim, pencilType, eig_real, eig_imag, nimag,
                   i, lambda, history, written>>

\* Faulty variant: the resizes hoisted above the GEP call.
GEPFailResized ==
    /\ pc = "gep"
    /\ gepStatus' = "failed"
    /\ gepCalls' = gepCalls + 1
    /\ errors' = errors + 1
    /\ eig_real' = Resize(eig_real, dim)
    /\ eig_imag' = IF fn = "generic" THEN Resize(eig_imag, dim) ELSE eig_imag
    /\ result' = "false"
    /\ pc' = "done"
    /\ UNCHANGED <<fn, real, order, dim, pencilType, nreal, nimag,
                   i, lambda, history, written>>

\* if (!GEP(...)) { ERROR(...); return false; } with GEP returning false.
GEPFail ==
    /\ pc = "gep"
    /\ gepStatus' = "failed"
    /\ gepCalls' = gepCalls + 1
    /\ errors' = errors + 1
    /\ result' = "false"
    /\ pc' = "done"
    /\ UNCHANGED <<fn, real, order, dim, pencilType, eig_real, eig_imag, nreal,
                   nimag, i, lambda, history, written>>

\* GEP returns true with table t; nreal = 0 (nimag = 0) and the resizes follow.
GEPReturn(t) ==
    /\ pc = "gep"
    /\ lambda' = t
    /\ gepStatus' = "ok"
    /\ gepCalls' = gepCalls + 1
    /\ nreal' = 0
    /\ nimag' = 0
    /\ eig_real' = Resize(eig_real, dim)
    /\ eig_imag' = IF fn = "generic" THEN Resize(eig_imag, dim) ELSE eig_imag
    /\ i' = 0
    /\ pc' = "loop"
    /\ UNCHANGED <<fn, real, order, dim, pencilType, errors, result, history, written>>

\* The solver honours its contract: every denominator is nonzero.
GEPSucceed == \E t \in Tables(dim, RealRows, PairRows) : GEPReturn(t)

\* The solver may also return rows with denominator zero.
GEPSucceedZeroDenom ==
    \E t \in Tables(dim, RealRows \cup ZeroRealRows, PairRows \cup ZeroPairRows) :
        GEPReturn(t)

\* One iteration of the classification loop.
Classify ==
    /\ pc = "loop"
    /\ i < dim
    /\ LET row == lambda[i + 1] IN
       IF IsRealRow(row)
       THEN \E q \in DivOutcomes(row[1], row[3]) :
               /\ eig_imag' = IF fn = "generic" THEN Store(eig_imag, nreal, 0)
                              ELSE eig_imag
               /\ eig_real' = Store(eig_real, nreal, q)
               /\ written' = Append(written, nreal)
               /\ nreal' = nreal + 1
               /\ nimag' = nimag
       ELSE IF fn = "generic"
       THEN \E qi \in DivOutcomes(row[2], row[3]), qr \in DivOutcomes(row[1], row[3]) :
               /\ eig_imag' = Store(eig_imag, ComplexSlot(dim, nimag), qi)
               /\ eig_real' = Store(eig_real, ComplexSlot(dim, nimag), qr)
               /\ written' = Append(written, ComplexSlot(dim, nimag))
               /\ nimag' = nimag + 1
               /\ nreal' = nreal
       ELSE UNCHANGED <<eig_real, eig_imag, nreal, nimag, written>>
    /\ i' = i + 1
    /\ UNCHANGED <<fn, real, order, dim, pencilType, pc, lambda, gepStatus,
                   gepCalls, errors, result, history>>

\* std::sort of the real prefix, then return true.
Sort ==
    /\ pc = "loop"
    /\ i = dim
    /\ eig_real' \in StdSort(eig_real, nreal)
    /\ result' = "true"
    /\ pc' = "done"
    /\ UNCHANGED <<fn, real, order, dim, pencilType, eig_imag, nreal, nimag, i,
                   lambda, gepStatus, gepCalls, errors, history, written>>

Next ==
    \/ eigensolveroots
    \/ eigensolveroots_lobatto
    \/ eigensolveroots_laguerre
    \/ GEPFail
    \/ GEPSucceed
    \/ Classify
    \/ Sort

Spec == Init /\ [][Next]_vars

NextZeroDenom ==
    \/ eigensolveroots
    \/ eigensolveroots_lobatto
    \/ eigensolveroots_laguerre
    \/ GEPFail
    \/ GEPSucceedZeroDenom
    \/ Classify
    \/ Sort

SpecZeroDenom == Init /\ [][NextZeroDenom]_vars

-----------------------------------------------------------------------------
(* Helpers of the properties *)

Returned(f) == pc = "done" /\ fn = f
Succeeded == pc = "done" /\ result = "true"
SortedPrefix(s, n) == \A j \in 1..(n - 1) : s[j] <= s[j + 1]
RowsReal == SelectSeq(lambda, LAMBDA r : r[2] = 0)
RowsComplex == SelectSeq(lambda, LAMBDA r : r[2] # 0)
ValuesOf(rows, c) == [k \in 1..Len(rows) |-> Quot(rows[k][c], rows[k][3])]
TailSlots == (nreal + 1)..dim
GeneralCase ==
    \/ fn = "generic"
    \/ fn = "lobatto" /\ order >= 3
    \/ fn = "laguerre" /\ order >= 2
Distinct(s) == \A j, k \in 1..Len(s) : j # k => s[j] # s[k]

-----------------------------------------------------------------------------
\* C1: after every call that returns success, of any of the three solvers and
\* for every prior content of eig_real, eig_real[0..nreal) is non-decreasing.
C1_SortedAfterSuccess == Succeeded => SortedPrefix(eig_real, nreal)

\* C2: after a successful eigensolveroots call with N >= 1, nreal plus twice the
\* number of complex-conjugate pairs stored in the tail [nreal, N) equals N, and
\* every tail entry is a member of such a pair.
C2_CountInvariant ==
    (Returned("generic") /\ result = "true" /\ dim >= 1) =>
        /\ Len(eig_real) = dim /\ Len(eig_imag) = dim
        /\ \A j \in TailSlots : \E k \in TailSlots :
              /\ eig_imag[j] # 0
              /\ eig_real[k] = eig_real[j]
              /\ eig_imag[k] = -eig_imag[j]
        /\ nreal + 2 * Cardinality({j \in TailSlots : eig_imag[j] > 0}) = dim

C2_Witness ==
    /\ Returned("generic") /\ result = "true"
    /\ dim = 3 /\ nreal = 1 /\ nimag = 2

\* C3: for the closed-form orders the caller's output sequence is exactly the
\* listed root set and nreal its length, whatever the sequence held before.
C3_ClosedFormExact ==
    /\ (Returned("lobatto") /\ order = 0) => (eig_real = <<0>> /\ nreal = 1)
    /\ (Returned("lobatto") /\ order = 1) => (eig_real = <<-1, 1>> /\ nreal = 2)
    /\ (Returned("lobatto") /\ order = 2) => (eig_real = <<-1, 0, 1>> /\ nreal = 3)
    /\ (Returned("laguerre") /\ order = 0) => (eig_real = <<>> /\ nreal = 0)
    /\ (Returned("laguerre") /\ order = 1) => (eig_real = <<2>> /\ nreal = 1)

\* C4: when the solver reports failure, the entry point returns false right after
\* that single invocation (one error logged), never calls the solver again, and
\* nreal keeps the value it had before the call.
C4_FailFast ==
    /\ gepCalls <= 1
    /\ gepStatus = "failed" =>
          /\ pc = "done" /\ result = "false"
          /\ gepCalls = 1 /\ errors = 1
          /\ nreal = nreal0

C4_Witness == gepStatus = "failed" /\ fn = "lobatto" /\ nreal0 = 5 /\ order = 4

\* C5 as claimed: eigensolveroots leaves eig_real and eig_imag with length N
\* whatever the outcome, also when the solver fails.
C5_ResizedRegardless ==
    Returned("generic") => (Len(eig_real) = dim /\ Len(eig_imag) = dim)

\* C5 amended: eigensolveroots resizes eig_real and eig_imag to N only when the
\* solver succeeds; when it fails both are left exactly as the caller supplied them.
C5_ResizedOnlyOnSuccess ==
    Returned("generic") =>
        /\ result = "true" => (Len(eig_real) = dim /\ Len(eig_imag) = dim)
        /\ result = "false" => (eig_real = eig_real0 /\ eig_imag = eig_imag0)

C5_Witness ==
    /\ Returned("generic") /\ result = "false"
    /\ Len(eig_real0) # dim /\ Len(eig_imag0) # dim

\* C6: if the solver succeeds but some row has a zero denominator, the entry
\* point reports failure instead of dividing and returning success.
C6_ZeroDenomGuarded ==
    (pc = "done" /\ gepStatus = "ok" /\ \E k \in 1..Len(lambda) : lambda[k][3] = 0)
        => result = "false"

C8_Placement ==
    (Returned("generic") /\ result = "true") =>
        /\ Len(eig_real) = dim /\ Len(eig_imag) = dim
        /\ nreal = Len(RowsReal)
        /\ IsPermutation(SubSeq(eig_real, 1, nreal), ValuesOf(RowsReal, 1))
        /\ \A j \in 1..nreal : eig_imag[j] = 0
        /\ \A k \in 0..(Len(RowsComplex) - 1) :
              /\ eig_real[dim - k] = ValuesOf(RowsComplex, 1)[k + 1]
              /\ eig_imag[dim - k] = ValuesOf(RowsComplex, 2)[k + 1]

C8_Witness ==
    /\ Returned("generic") /\ result = "true"
    /\ dim = 3 /\ lambda[1][2] # 0 /\ lambda[3] = <<1, 0, 1>>
    /\ eig_real = <<1, 1, 1>> /\ eig_imag = <<0, 1, -1>>

\* C9: eigensolveroots_lobatto with order >= 3, a successful solve and only real
\* rows returns success with nreal = order - 1 and eig_real of length order - 1
\* holding the rows' values alone, no endpoint appended.
C9_LobattoInterior ==
    (Returned("lobatto") /\ order >= 3 /\ gepStatus = "ok" /\ RowsComplex = <<>>) =>
        /\ result = "true"
        /\ nreal = order - 1
        /\ Len(eig_real) = order - 1
        /\ IsPermutation(eig_real, ValuesOf(lambda, 1))

C9_Witness ==
    /\ Returned("lobatto") /\ order = 4 /\ result = "true"
    /\ RowsComplex = <<>> /\ nreal = 3 /\ eig_real = <<-2, -1, 1>>

\* C10: in the classification loop of eigensolveroots every slot written lies in
\* [0, N), no slot is written twice, the real prefix and the complex tail never
\* overlap (nreal + nimag <= N at every step, = N on return); in the Lobatto and
\* Laguerre general cases 0 <= nreal <= size of eig_real at every step and on return.
C10_IndexSafety ==
    (gepStatus = "ok" /\ GeneralCase) =>
        /\ \A k \in Range(written) : 0 <= k /\ k < dim
        /\ Distinct(written)
        /\ 0 <= nreal /\ nreal <= Len(eig_real)
        /\ fn = "generic" =>
              /\ nreal + nimag = i /\ i <= dim
              /\ Len(written) = i
              /\ \A k \in Range(written) : k < nreal \/ k >= dim - nimag
              /\ pc = "done" => nreal + nimag = dim

C10_Witness ==
    /\ Returned("generic") /\ result = "true"
    /\ dim = 3 /\ written = <<0, 2, 1>>

====
